---- MODULE Spec2Model ----
(***************************************************************************)
(* A model of gmail_sender.py (GmailSender.send_email and _attach_file)    *)
(* and of calculate.py with its test backend/Test/test.py.                 *)
(*                                                                         *)
(* Strings that the code builds (header values, file paths) are sequences  *)
(* of tokens, so that joining and basename extraction are computed.        *)
(* An Optional[List[str]] argument is a record [some, val]: None is        *)
(* some = FALSE, a list is some = TRUE with its elements in val.           *)
(***************************************************************************)
EXTENDS Integers, Sequences, FiniteSets, TLC

VARIABLES
    self,        \* the GmailSender instance: sender_email, password
    fs,          \* the filesystem: the set of paths that open() can read
    pc,          \* position of send_email: idle, attach, recipients,
                 \*   connect, starttls, login, sendmail, quit, done
    req,         \* the arguments of the current call
    message,     \* the local `message`: headers and parts
    idx,         \* number of entries of `attachments` already processed
    recipients,  \* the local `recipients`
    conn,        \* the SMTP connection: none, open, closed
    log,         \* calls made on the transport in this call: step,
                 \*   outcome (ok or the exception raised), envelope passed
    out,         \* lines printed in this call
    handler,     \* the except clause that ran in this call, or none
    result,      \* pending, True, False, or raise (exception left the call)
    prev,        \* an earlier finished call kept for comparison
    calc,        \* the last call made into calculate.py
    test         \* progress of test_sum_numbers

vars == <<self, fs, pc, req, message, idx, recipients, conn, log, out,
          handler, result, prev, calc, test>>

mailVars == <<self, fs, pc, req, message, idx, recipients, conn, log, out,
              handler, result, prev>>

-----------------------------------------------------------------------------
(* Bounds of the explored inputs *)

MaxCc == 2

MaxBcc == 1

MaxAtt == 2

MaxInt == 4

-----------------------------------------------------------------------------
(* Input universe *)

Sender == "me@gmail.com"

Password == "app-password"

Recipient == "r@x.com"

CcAddrs == {"a@x.com", "b@x.com"}

BccAddrs == {"s@x.com", "a@x.com"}

FileA == <<"a">>

FileB == <<"d", "/", "b">>

DirD == <<"d", "/">>

Files == {FileA, FileB}

Paths == Files \cup {DirD}

SeqsUpTo(S, n) == UNION {[1..k -> S] : k \in 0..n}

NoneList == [some |-> FALSE, val |-> <<>>]

Some(s) == [some |-> TRUE, val |-> s]

OptLists(S, n) == {NoneList} \cup {Some(s) : s \in SeqsUpTo(S, n)}

Requests ==
    [recipient_email : {Recipient},
     subject         : {"Test"},
     message_body    : {"Hello"},
     is_html         : BOOLEAN,
     cc              : OptLists(CcAddrs, MaxCc),
     bcc             : OptLists(BccAddrs, MaxBcc),
     attachments     : OptLists(Paths, MaxAtt)]

SeqRequests ==
    [recipient_email : {Recipient},
     subject         : {"Test"},
     message_body    : {"Hello"},
     is_html         : BOOLEAN,
     cc              : {NoneList, Some(<<"a@x.com">>)},
     bcc             : {NoneList, Some(<<"s@x.com">>)},
     attachments     : {NoneList, Some(<<FileA>>), Some(<<FileB, FileA>>)}]

NoRequest ==
    [recipient_email |-> "", subject |-> "", message_body |-> "",
     is_html |-> FALSE, cc |-> NoneList, bcc |-> NoneList,
     attachments |-> NoneList]

NoMessage == [headers |-> <<>>, parts |-> <<>>]

NoPrev ==
    [valid |-> FALSE, old |-> FALSE, req |-> NoRequest,
     message |-> NoMessage, recipients |-> <<>>, result |-> "pending"]

-----------------------------------------------------------------------------
(* Python helpers used by send_email *)

\* truth value of an Optional[List]: None and [] are both false
Truthy(x) == x.some /\ x.val # <<>>

\* sep.join(seq)
RECURSIVE Join(_, _)
Join(seq, sep) ==
    IF seq = <<>> THEN <<>>
    ELSE IF Len(seq) = 1 THEN <<seq[1]>>
    ELSE <<seq[1], sep>> \o Join(Tail(seq), sep)

\* os.path.basename: what follows the last "/"
LastSlash(p) ==
    LET S == {i \in 1..Len(p) : p[i] = "/"}
    IN  IF S = {} THEN 0 ELSE CHOOSE i \in S : \A j \in S : j <= i

basename(p) == SubSeq(p, LastSlash(p) + 1, Len(p))

\* message[name] = value appends a header
SetHeader(m, name, value) ==
    [m EXCEPT !.headers = Append(@, <<name, value>>)]

\* message.attach(part)
Attach(m, part) == [m EXCEPT !.parts = Append(@, part)]

\* a MIMEMultipart reused from the previous call instead of a new one
MIMEMultipartShared ==
    IF message = NoMessage
    THEN [headers |-> << <<"Content-Type", <<"multipart/mixed">> >>,
                         <<"MIME-Version", <<"1.0">> >> >>,
          parts   |-> <<>>]
    ELSE message

\* MIMEMultipart(): a new container with its own MIME headers and no part
MIMEMultipart ==
    [headers |-> << <<"Content-Type", <<"multipart/mixed">> >>,
                    <<"MIME-Version", <<"1.0">> >> >>,
     parts   |-> <<>>]

\* MIMEText(message_body, msg_type)
MIMEText(body, msg_type) ==
    [maintype |-> "text", subtype |-> msg_type, filename |-> <<>>,
     payload |-> <<"text", <<body>> >>]

\* headers written with a Bcc header as well
ComposeHeadersBcc(m, sender_email, r) ==
    LET m1 == SetHeader(m, "From", <<sender_email>>)
        m2 == SetHeader(m1, "To", <<r.recipient_email>>)
        m3 == SetHeader(m2, "Subject", <<r.subject>>)
        m4 == IF Truthy(r.cc) THEN SetHeader(m3, "Cc", Join(r.cc.val, ", "))
              ELSE m3
    IN  IF Truthy(r.bcc) THEN SetHeader(m4, "Bcc", Join(r.bcc.val, ", "))
        ELSE m4

\* lines 66-72: From, To, Subject and, if cc, Cc
ComposeHeaders(m, sender_email, r) ==
    LET m1 == SetHeader(m, "From", <<sender_email>>)
        m2 == SetHeader(m1, "To", <<r.recipient_email>>)
        m3 == SetHeader(m2, "Subject", <<r.subject>>)
    IN  IF Truthy(r.cc) THEN SetHeader(m3, "Cc", Join(r.cc.val, ", "))
        ELSE m3

\* lines 75-76: the body part
ComposeBody(m, r) ==
    Attach(m, MIMEText(r.message_body, IF r.is_html THEN "html" ELSE "plain"))

\* recipients without the cc addresses
RecipientsNoCc(r) ==
    <<r.recipient_email>> \o (IF Truthy(r.bcc) THEN r.bcc.val ELSE <<>>)

\* lines 84-88: To + CC + BCC
Recipients(r) ==
    <<r.recipient_email>>
        \o (IF Truthy(r.cc) THEN r.cc.val ELSE <<>>)
        \o (IF Truthy(r.bcc) THEN r.bcc.val ELSE <<>>)

\* open(file_path, 'rb') and file.read(): ok or the exception raised
OpenResult(path, f) ==
    IF path \in f THEN "ok"
    ELSE IF path # <<>> /\ path[Len(path)] = "/" THEN "IsADirectoryError"
    ELSE "FileNotFoundError"

\* an attachment part named by the whole path
AttachmentPartFullPath(path) ==
    [maintype |-> "application", subtype |-> "octet-stream",
     filename |-> path, payload |-> <<"base64", path>>]

\* lines 135-142: the octet-stream part, base64 payload, filename header
AttachmentPart(path) ==
    [maintype |-> "application", subtype |-> "octet-stream",
     filename |-> basename(path), payload |-> <<"base64", path>>]

\* _attach_file: the message after the call
AttachFileMessage(m, path, f) ==
    IF OpenResult(path, f) = "ok" THEN Attach(m, AttachmentPart(path)) ELSE m

\* _attach_file: the line it prints
AttachFileLine(path, f) ==
    IF OpenResult(path, f) = "ok" THEN "Attached"
    ELSE IF OpenResult(path, f) = "FileNotFoundError" THEN "WarningNotFound"
    ELSE "WarningCouldNotAttach"

-----------------------------------------------------------------------------
(* The transport collaborator (smtplib.SMTP) as called by send_email *)

\* the recipient list a call is given: only sendmail takes one (line 104)
TransportEnvelope(step, rcpts) == IF step = "sendmail" THEN rcpts ELSE <<>>

\* exceptions each call may raise
Raises(step) ==
    CASE step = "connect"  -> {"SMTPException", "OSError"}
      [] step = "starttls" -> {"SMTPException", "SMTPServerDisconnected"}
      [] step = "login"    -> {"SMTPAuthenticationError", "SMTPException",
                               "SMTPServerDisconnected"}
      [] step = "sendmail" -> {"SMTPException", "SMTPServerDisconnected"}
      [] step = "quit"     -> {"SMTPServerDisconnected"}

\* classes an exception is an instance of
Mro(e) ==
    CASE e = "SMTPAuthenticationError" ->
             {"SMTPAuthenticationError", "SMTPException", "OSError", "Exception"}
      [] e = "SMTPServerDisconnected" ->
             {"SMTPServerDisconnected", "SMTPException", "OSError", "Exception"}
      [] e = "SMTPException" -> {"SMTPException", "OSError", "Exception"}
      [] e = "OSError" -> {"OSError", "Exception"}

\* the connection after a call returned
ConnAfterOk(step, c) ==
    CASE step = "connect" -> "open"
      [] step = "quit"    -> "closed"
      [] OTHER            -> c

\* the connection after a call raised: SMTP() that raises opened nothing,
\* a server disconnect closes the socket, any other error leaves it as is
ConnAfterRaise(step, e, c) ==
    IF step = "connect" THEN "none"
    ELSE IF e = "SMTPServerDisconnected" THEN "closed"
    ELSE c

\* except clauses without the final `except Exception`
HandlerForNoCatchAll(e) ==
    IF "SMTPAuthenticationError" \in Mro(e) THEN "SMTPAuthenticationError"
    ELSE IF "SMTPException" \in Mro(e) THEN "SMTPException"
    ELSE "propagate"

\* except clauses with SMTPException tested first
HandlerForSwapped(e) ==
    IF "SMTPException" \in Mro(e) THEN "SMTPException"
    ELSE IF "SMTPAuthenticationError" \in Mro(e) THEN "SMTPAuthenticationError"
    ELSE IF "Exception" \in Mro(e) THEN "Exception"
    ELSE "propagate"

\* lines 112-123: the first except clause that matches
HandlerFor(e) ==
    IF "SMTPAuthenticationError" \in Mro(e) THEN "SMTPAuthenticationError"
    ELSE IF "SMTPException" \in Mro(e) THEN "SMTPException"
    ELSE IF "Exception" \in Mro(e) THEN "Exception"
    ELSE "propagate"

\* what a handler prints
HandlerLines(h) ==
    CASE h = "SMTPAuthenticationError" -> <<"AuthFailed", "AuthHint">>
      [] h = "SMTPException"           -> <<"SMTPError">>
      [] h = "Exception"               -> <<"Error">>
      [] OTHER                         -> <<>>

\* the value send_email hands back once a handler was chosen
HandlerResult(h) == IF h = "propagate" THEN "raise" ELSE "False"

\* a step order that goes from starttls straight to sendmail
AfterSkipLogin(step) ==
    CASE step = "connect"  -> "starttls"
      [] step = "starttls" -> "sendmail"
      [] step = "login"    -> "sendmail"
      [] step = "sendmail" -> "quit"
      [] step = "quit"     -> "done"

\* lines 92-110: the statement that follows a call that returned
After(step) ==
    CASE step = "connect"  -> "starttls"
      [] step = "starttls" -> "login"
      [] step = "login"    -> "sendmail"
      [] step = "sendmail" -> "quit"
      [] step = "quit"     -> "done"

\* what is printed after a call returned
AfterLines(step) ==
    CASE step = "connect"  -> <<"StartingTLS">>
      [] step = "starttls" -> <<"LoggingIn">>
      [] step = "login"    -> <<"Sending">>
      [] step = "sendmail" -> <<>>
      [] step = "quit"     -> <<"Sent">>

-----------------------------------------------------------------------------
(* send_email *)

InitMail ==
    /\ self = [sender_email |-> Sender, password |-> Password]
    /\ fs \in SUBSET Files
    /\ pc = "idle"
    /\ req = NoRequest
    /\ message = NoMessage
    /\ idx = 0
    /\ recipients = <<>>
    /\ conn = "none"
    /\ log = <<>>
    /\ out = <<>>
    /\ handler = "none"
    /\ result = "pending"
    /\ prev = NoPrev

\* entry of send_email up to the body part (lines 63-79)
Call(r) ==
    /\ pc \in {"idle", "done"}
    /\ req' = r
    /\ message' = ComposeBody(ComposeHeaders(MIMEMultipart, self.sender_email, r), r)
    /\ idx' = 0
    /\ recipients' = <<>>
    /\ conn' = "none"
    /\ log' = <<>>
    /\ out' = <<>>
    /\ handler' = "none"
    /\ result' = "pending"
    /\ pc' = IF Truthy(r.attachments) THEN "attach" ELSE "recipients"
    /\ prev' = IF prev.valid THEN [prev EXCEPT !.old = TRUE] ELSE prev
    /\ UNCHANGED <<self, fs, calc, test>>

\* one iteration of the attachment loop (lines 80-81, 125-149)
AttachFile ==
    /\ pc = "attach"
    /\ LET path == req.attachments.val[idx + 1]
       IN  /\ message' = AttachFileMessage(message, path, fs)
           /\ out' = Append(out, AttachFileLine(path, fs))
    /\ idx' = idx + 1
    /\ pc' = IF idx + 1 = Len(req.attachments.val) THEN "recipients" ELSE "attach"
    /\ UNCHANGED <<self, fs, req, recipients, conn, log, handler, result,
                   prev, calc, test>>

\* lines 84-91
PrepareRecipients ==
    /\ pc = "recipients"
    /\ recipients' = Recipients(req)
    /\ out' = Append(out, "Connecting")
    /\ pc' = "connect"
    /\ UNCHANGED <<self, fs, req, message, idx, conn, log, handler, result,
                   prev, calc, test>>

\* one call on the transport, then either the code that follows it or the
\* except clause that catches what it raised
TransportCall(step) ==
    /\ pc = step
    /\ \E o \in {"ok"} \cup Raises(step) :
         /\ log' = Append(log, [step |-> step, outcome |-> o,
                                 to |-> TransportEnvelope(step, recipients)])
         /\ IF o = "ok"
            THEN /\ conn' = ConnAfterOk(step, conn)
                 /\ out' = out \o AfterLines(step)
                 /\ pc' = After(step)
                 /\ handler' = handler
                 /\ result' = IF After(step) = "done" THEN "True" ELSE result
            ELSE /\ conn' = ConnAfterRaise(step, o, conn)
                 /\ out' = out \o HandlerLines(HandlerFor(o))
                 /\ pc' = "done"
                 /\ handler' = HandlerFor(o)
                 /\ result' = HandlerResult(HandlerFor(o))
    /\ UNCHANGED <<self, fs, req, message, idx, recipients, prev, calc, test>>

Connect == TransportCall("connect")

StartTLS == TransportCall("starttls")

Login == TransportCall("login")

Sendmail == TransportCall("sendmail")

Quit == TransportCall("quit")

\* keep the finished call for comparison with a later one
Remember ==
    /\ pc = "done"
    /\ prev' = [valid |-> TRUE, old |-> FALSE, req |-> req,
                message |-> message, recipients |-> recipients,
                result |-> result]
    /\ prev' # prev
    /\ UNCHANGED <<self, fs, pc, req, message, idx, recipients, conn, log,
                   out, handler, result, calc, test>>

-----------------------------------------------------------------------------
(* calculate.py and its test *)

sum_numbers(a, b) == a + b

multiply_numbers(a, b) == a * b

\* the three assertions of test_sum_numbers: arguments and asserted value
TestCases ==
    << [a |-> 1, b |-> 2, expected |-> 1],
       [a |-> -1, b |-> 1, expected |-> 0],
       [a |-> 0, b |-> 0, expected |-> 0] >>

NoCalc == [op |-> "none", a |-> 0, b |-> 0, r |-> 0]

InitCalc ==
    /\ calc = NoCalc
    /\ test = [passed |-> 0, failed |-> FALSE]

CallSum ==
    \E a \in -MaxInt..MaxInt, b \in -MaxInt..MaxInt :
        /\ calc' = [op |-> "sum", a |-> a, b |-> b, r |-> sum_numbers(a, b)]
        /\ UNCHANGED <<mailVars, test>>

CallMultiply ==
    \E a \in -MaxInt..MaxInt, b \in -MaxInt..MaxInt :
        /\ calc' = [op |-> "multiply", a |-> a, b |-> b,
                    r |-> multiply_numbers(a, b)]
        /\ UNCHANGED <<mailVars, test>>

\* the next assert of test_sum_numbers; a failed assert ends the test
TestStep ==
    /\ ~test.failed
    /\ test.passed < Len(TestCases)
    /\ LET c == TestCases[test.passed + 1]
       IN  /\ calc' = [op |-> "sum", a |-> c.a, b |-> c.b,
                       r |-> sum_numbers(c.a, c.b)]
           /\ test' = IF sum_numbers(c.a, c.b) = c.expected
                      THEN [test EXCEPT !.passed = @ + 1]
                      ELSE [test EXCEPT !.failed = TRUE]
    /\ UNCHANGED mailVars

-----------------------------------------------------------------------------
(* Specifications *)

Init == InitMail /\ InitCalc

\* one call of send_email on a new instance, over every request
Next ==
    \/ pc = "idle" /\ \E r \in Requests : Call(r)
    \/ AttachFile
    \/ PrepareRecipients
    \/ Connect
    \/ StartTLS
    \/ Login
    \/ Sendmail
    \/ Quit

Spec == Init /\ [][Next]_vars

\* a sequence of calls on one instance, an earlier one kept for comparison
NextSeq ==
    \/ pc \in {"idle", "done"} /\ \E r \in SeqRequests : Call(r)
    \/ AttachFile
    \/ PrepareRecipients
    \/ Connect
    \/ StartTLS
    \/ Login
    \/ Sendmail
    \/ Quit
    \/ Remember

SpecSeq == Init /\ [][NextSeq]_vars

NextCalc ==
    \/ CallSum
    \/ CallMultiply
    \/ TestStep

SpecCalc == Init /\ [][NextCalc]_vars

TypeOK ==
    /\ pc \in {"idle", "attach", "recipients", "connect", "starttls",
               "login", "sendmail", "quit", "done"}
    /\ conn \in {"none", "open", "closed"}
    /\ result \in {"pending", "True", "False", "raise"}
    /\ handler \in {"none", "SMTPAuthenticationError", "SMTPException",
                    "Exception", "propagate"}
    /\ fs \subseteq Files

-----------------------------------------------------------------------------
(* Observations used by the properties *)

Range(s) == {s[k] : k \in 1..Len(s)}

\* composition (headers, body, every attachment) is over
Composed ==
    pc \in {"recipients", "connect", "starttls", "login", "sendmail",
            "quit", "done"}

\* the recipient list has been prepared
Addressed == pc \in {"connect", "starttls", "login", "sendmail", "quit", "done"}

StepOk(s) == \E k \in 1..Len(log) : log[k].step = s /\ log[k].outcome = "ok"

Attempted(s) == \E k \in 1..Len(log) : log[k].step = s

Failed == \E k \in 1..Len(log) : log[k].outcome # "ok"

HeaderNames == {message.headers[k][1] : k \in 1..Len(message.headers)}

HeaderValues(name) ==
    {message.headers[k][2] :
        k \in {j \in 1..Len(message.headers) : message.headers[j][1] = name}}

Count(s, S) == Cardinality({k \in 1..Len(s) : s[k] \in S})

\* n is the last component of path p
IsBaseNameOf(n, p) ==
    /\ \A k \in 1..Len(n) : n[k] # "/"
    /\ \E d \in {SubSeq(p, 1, j) : j \in 0..Len(p)} :
         /\ p = d \o n
         /\ (d = <<>> \/ d[Len(d)] = "/")

-----------------------------------------------------------------------------
(* Properties *)

\* C1: once send_email has returned, a connection that smtplib.SMTP(...)
\* opened in that call is closed, on every exit path.
C1_ConnectionReleased ==
    (pc = "done" /\ StepOk("connect")) => conn = "closed"

\* C2: with a non-empty bcc list, the headers of the composed message are
\* only the container's own and From, To, Subject and (iff cc is given) Cc,
\* never Bcc; a bcc address that is not also the sender, the recipient or a
\* cc address occurs in no header value; and every bcc address is in the
\* recipient list, which is the one handed to sendmail.
C2_BccOnlyInEnvelope ==
    (Composed /\ Truthy(req.bcc)) =>
        /\ HeaderNames \subseteq
               {"Content-Type", "MIME-Version", "From", "To", "Subject", "Cc"}
        /\ "Bcc" \notin HeaderNames
        /\ ("Cc" \in HeaderNames) <=> (req.cc.some /\ Len(req.cc.val) > 0)
        /\ \A b \in Range(req.bcc.val) :
              (b \notin Range(req.cc.val) \cup {req.recipient_email, self.sender_email})
                  => \A k \in 1..Len(message.headers) :
                         b \notin Range(message.headers[k][2])
        /\ Addressed => Range(req.bcc.val) \subseteq Range(recipients)
        /\ \A k \in 1..Len(log) :
              log[k].step = "sendmail" => Range(req.bcc.val) \subseteq Range(log[k].to)

C2_Witness ==
    /\ pc = "done"
    /\ result = "True"
    /\ req.bcc = Some(<<"s@x.com">>)
    /\ req.cc = Some(<<"a@x.com">>)

\* C3: no failure leaves send_email as an exception: a call in which any
\* step raised returns False, and a call returns True only if sendmail
\* completed without raising.
C3_FailuresReturnFalse ==
    /\ result # "raise"
    /\ handler # "propagate"
    /\ pc = "done" =>
        /\ result \in {"True", "False"}
        /\ Failed => result = "False"
        /\ result = "True" => StepOk("sendmail")

C3_Witness ==
    /\ pc = "done"
    /\ result = "False"
    /\ log[Len(log)].outcome = "OSError"

\* C4: a failed call reports exactly one classification: authentication
\* failure for SMTPAuthenticationError, SMTP error for any other SMTP
\* exception, generic error for anything else.
C4_DistinctClassification ==
    (pc = "done" /\ Failed) =>
        LET e == log[Len(log)].outcome
            Reports == {"AuthFailed", "SMTPError", "Error"}
        IN  /\ Count(out, Reports) = 1
            /\ e = "SMTPAuthenticationError" =>
                   handler = "SMTPAuthenticationError" /\ Count(out, {"AuthFailed"}) = 1
            /\ e \in {"SMTPException", "SMTPServerDisconnected"} =>
                   handler = "SMTPException" /\ Count(out, {"SMTPError"}) = 1
            /\ e \notin {"SMTPAuthenticationError", "SMTPException",
                         "SMTPServerDisconnected"} =>
                   handler = "Exception" /\ Count(out, {"Error"}) = 1

C4_Witness ==
    /\ pc = "done"
    /\ log[Len(log)] =
         [step |-> "login", outcome |-> "SMTPAuthenticationError", to |-> <<>>]
    /\ handler = "SMTPAuthenticationError"

\* C5: the composed message has one body part, html iff is_html, then one
\* attachment part per readable path in request order, named by the path's
\* basename; each unreadable path adds no part and one warning; unreadable
\* paths alone never make the call return False.
C5_PartsMatchReadableAttachments ==
    Composed =>
        LET paths    == req.attachments.val
            readable == SelectSeq(paths, LAMBDA p : p \in fs)
            parts    == message.parts
        IN  /\ Len(parts) = 1 + Len(readable)
            /\ parts[1].maintype = "text"
            /\ parts[1].subtype = (IF req.is_html THEN "html" ELSE "plain")
            /\ parts[1].payload = <<"text", <<req.message_body>> >>
            /\ \A k \in 1..Len(readable) :
                  /\ parts[k + 1].maintype = "application"
                  /\ parts[k + 1].payload = <<"base64", readable[k]>>
                  /\ IsBaseNameOf(parts[k + 1].filename, readable[k])
            /\ Count(out, {"WarningNotFound", "WarningCouldNotAttach"})
                   = Len(paths) - Len(readable)
            /\ Count(out, {"Attached"}) = Len(readable)
            /\ (pc = "done" /\ ~Failed) => result = "True"

C5_Witness ==
    /\ pc = "done"
    /\ result = "True"
    /\ req.attachments = Some(<<DirD, FileB>>)
    /\ FileB \in fs
    /\ Len(message.parts) = 2

\* C6: the envelope handed to sendmail is, as a set, recipient_email plus
\* the cc plus the bcc addresses; the Cc header is the cc addresses in order
\* separated by ", " when cc is non-empty and is absent otherwise.
C6_EnvelopeAndCcHeader ==
    /\ Addressed =>
          Range(recipients) =
              {req.recipient_email} \cup Range(req.cc.val) \cup Range(req.bcc.val)
    /\ \A k \in 1..Len(log) : log[k].step = "sendmail" => log[k].to = recipients
    /\ Composed =>
          IF req.cc.some /\ Len(req.cc.val) > 0
          THEN /\ Cardinality({k \in 1..Len(message.headers) :
                                   message.headers[k][1] = "Cc"}) = 1
               /\ \A v \in HeaderValues("Cc") :
                     /\ Len(v) = 2 * Len(req.cc.val) - 1
                     /\ \A k \in 1..Len(req.cc.val) : v[2 * k - 1] = req.cc.val[k]
                     /\ \A k \in 1..(Len(req.cc.val) - 1) : v[2 * k] = ", "
          ELSE "Cc" \notin HeaderNames

C6_Witness ==
    /\ StepOk("sendmail")
    /\ req.cc = Some(<<"b@x.com", "a@x.com">>)
    /\ req.bcc = Some(<<"s@x.com">>)

\* C7: over a sequence of calls on one instance, sender_email and password
\* keep their values, and a finished call with the same arguments as an
\* earlier finished call (same files) has an equal message and envelope.
C7_CallsIndependent ==
    /\ self = [sender_email |-> Sender, password |-> Password]
    /\ (pc = "done" /\ prev.valid /\ prev.old /\ prev.req = req) =>
          /\ message = prev.message
          /\ recipients = prev.recipients

C7_Witness ==
    /\ pc = "done"
    /\ prev.valid
    /\ prev.old
    /\ prev.req = req
    /\ prev.result = "False"
    /\ result = "True"
    /\ req.attachments = Some(<<FileB, FileA>>)
    /\ req.cc = Some(<<"a@x.com">>)

\* C8: sum_numbers returns what test_sum_numbers asserts:
\* sum_numbers(1, 2) = 1, sum_numbers(-1, 1) = 0, sum_numbers(0, 0) = 0.
C8_TestAssertionsHold ==
    /\ ~test.failed
    /\ calc.op = "sum" =>
          /\ (calc.a = 1 /\ calc.b = 2) => calc.r = 1
          /\ (calc.a = -1 /\ calc.b = 1) => calc.r = 0
          /\ (calc.a = 0 /\ calc.b = 0) => calc.r = 0

\* C9: the transport calls of one send_email call are a prefix of connect,
\* starttls, login, sendmail, quit, each made once, nothing is called after
\* a call that raised, sendmail is called only after starttls and login
\* returned, and every attachment was processed before connect.
C9_StepOrder ==
    LET Order == <<"connect", "starttls", "login", "sendmail", "quit">>
    IN  /\ Len(log) <= Len(Order)
        /\ \A k \in 1..Len(log) :
              /\ log[k].step = Order[k]
              /\ k < Len(log) => log[k].outcome = "ok"
        /\ Failed => pc = "done"
        /\ Attempted("sendmail") => StepOk("starttls") /\ StepOk("login")
        /\ (Attempted("login") /\ ~StepOk("login")) => ~Attempted("sendmail")
        /\ log # <<>> => Composed /\ idx = Len(req.attachments.val)
        /\ \A k \in 1..Len(out) :
              out[k] \in {"Attached", "WarningNotFound", "WarningCouldNotAttach"}
                  => \A j \in 1..k : out[j] # "Connecting"

C9_Witness ==
    /\ pc = "done"
    /\ Len(log) = 3
    /\ log[3].step = "login"
    /\ log[3].outcome = "SMTPAuthenticationError"
    /\ Len(req.attachments.val) = 2

\* C10: whenever send_email returns False, sendmail did not complete in that
\* call; if sendmail completed the call returns True even if quit raises.
C10_FalseMeansNotSent ==
    (pc = "done" /\ result = "False") => ~StepOk("sendmail")

====
